---- MODULE Spec2Model ----
(***************************************************************************)
(* CodeGuardian: a command-line utility that reads a question from a JSON  *)
(* file, sends it to a chat-completion endpoint and prints the answer.     *)
(* The model follows src/main.py (the orchestrator), src/agents/ai_agent.py*)
(* (the agent client), src/config/settings.py and src/utils/helpers.py.    *)
(*                                                                         *)
(* Text (questions, replies) is a sequence of one-character strings, so    *)
(* that str.strip() is computed and not assumed.  Credentials, exception   *)
(* class names and messages are plain strings.  Python's None is NoneVal.  *)
(* The openai package and the file system are the environment: their       *)
(* outcomes are drawn nondeterministically where the code calls them.      *)
(***************************************************************************)
EXTENDS Integers, Sequences, FiniteSets, TLC

VARIABLES
    pc,              \* position of the process in main.py
    environ,         \* os.environ.get("OPENAI_API_KEY"): NoneVal when unset
    OPENAI_API_KEY,  \* settings.OPENAI_API_KEY, read once at import
    data,            \* run(): the parsed input document
    question,        \* run(): the extracted, stripped question
    api_key_arg,     \* <<>>, or <<k>> once CodeGuardianAgent(api_key=k) was called
    agent,           \* the CodeGuardianAgent instance
    requests,        \* calls of client.chat.completions.create, in order
    remote,          \* what the remote exchange produced, per call
    answer,          \* run(): the value returned by agent.ask
    exc,             \* the exception being propagated / last raised
    raised_in,       \* the step the exception was raised in
    stdout,          \* the arguments of the print() calls that succeeded
    log,             \* the records emitted by the logger
    exit_status      \* <<>> while running, <<n>> once the process exited

vars == <<pc, environ, OPENAI_API_KEY, data, question, api_key_arg, agent,
          requests, remote, answer, exc, raised_in, stdout, log, exit_status>>

-----------------------------------------------------------------------------
(* Bounds of the model *)

MaxLen == 3          \* longest question text
MaxReplyLen == 2     \* longest completion text
MaxChoices == 2      \* most completion choices in one response
MaxArgc == 3         \* largest len(sys.argv)

-----------------------------------------------------------------------------
(* Values *)

NoneVal == "None"

\* The characters str.strip() removes (those of them that matter here), and
\* the characters the texts of the model are made of.
Whitespace == {" ", "\t", "\n"}
QuestionAlphabet == {" ", "a"}
ReplyAlphabet == {" ", "a"}

TextsOver(alphabet, n) == UNION {[1..k -> alphabet] : k \in 0..n}

\* JSON values as json.load returns them: only str carries its text.
JStr(s) == [t |-> "str", s |-> s]
JNull == [t |-> "NoneType"]
JNumber == [t |-> "int"]
JList == [t |-> "list"]
JObject == [t |-> "dict"]
JDict(items) == [t |-> "dict", items |-> items]

QuestionValues ==
    {JStr(s) : s \in TextsOver(QuestionAlphabet, MaxLen)}
        \cup {JNull, JNumber, JList, JObject}

OtherValue(k) == IF k = "model" THEN JStr(<<"m">>) ELSE JNumber

\* The objects an input file can hold: "question" absent or of any JSON
\* type, and any of the other keys present.
InputObjects ==
    { JDict([k \in ks |-> IF k = "question" THEN q ELSE OtherValue(k)]) :
        ks \in SUBSET {"question", "model", "temperature"}, q \in QuestionValues }

\* A JSON document whose root is not an object.
NonObjectRoots == {JNull, JNumber, JList, JStr(<<"a">>)}

JsonDocuments == InputObjects \cup NonObjectRoots

-----------------------------------------------------------------------------
(* Python semantics used by the code *)

\* bool(x) for None and str
Truthy(x) == x \notin {NoneVal, ""}

\* x or y
PyOr(x, y) == IF Truthy(x) THEN x ELSE y

RECURSIVE LStrip(_)
LStrip(s) ==
    IF s # <<>> /\ Head(s) \in Whitespace THEN LStrip(Tail(s)) ELSE s

RECURSIVE RStrip(_)
RStrip(s) ==
    IF s # <<>> /\ s[Len(s)] \in Whitespace
    THEN RStrip(SubSeq(s, 1, Len(s) - 1))
    ELSE s

\* a strip() that was forgotten
StripForgotten(s) == s

\* lstrip() where strip() was meant
StripLeftOnly(s) == LStrip(s)

\* str.strip()
Strip(s) == RStrip(LStrip(s))

\* The classes an exception class derives from (itself included).
OpenAIErrors ==
    {"AuthenticationError", "RateLimitError", "APIConnectionError", "APITimeoutError"}

Mro(cls) ==
    IF cls = "SystemExit" THEN {"SystemExit", "BaseException"}
    ELSE IF cls \in OpenAIErrors THEN {cls, "OpenAIError", "Exception", "BaseException"}
    ELSE {cls, "Exception", "BaseException"}

\* a handler that takes only the class it names, not its subclasses
CatchesExactClass(handler_cls, cls) == handler_cls = cls

\* `except handler_cls` catches an exception of class cls
Catches(handler_cls, cls) == handler_cls \in Mro(cls)

\* An exception: its class, its message (the parts of the formatted string)
\* and the status the interpreter exits with when nothing catches it.
Exc(cls, msg) == [cls |-> cls, msg |-> msg, code |-> 1]
SystemExit(code) == [cls |-> "SystemExit", msg |-> <<>>, code |-> code]
NoExc == [cls |-> NoneVal, msg |-> <<>>, code |-> 0]

Ok(v) == [ok |-> TRUE, val |-> v]
Raises(e) == [ok |-> FALSE, exc |-> e]

-----------------------------------------------------------------------------
(* src/config/settings.py *)

PROJECT_NAME == "CodeGuardian"
LOG_LEVEL == "INFO"

\* os.getenv(name, default)
GetEnv(env, default) == IF env = NoneVal THEN default ELSE env

\* settings.OPENAI_API_KEY = os.getenv("OPENAI_API_KEY", "")
SettingsApiKey(env) == GetEnv(env, "")

EnvValues == {NoneVal, "", "sk-env"}

-----------------------------------------------------------------------------
(* src/utils/helpers.py *)

\* What open() and json.load() can meet at the input path.
Files ==
    {[kind |-> k, doc |-> JNull] :
        k \in {"missing", "unreadable", "undecodable", "malformed"}}
        \cup {[kind |-> "json", doc |-> d] : d \in JsonDocuments}

\* load_json(file_path)
load_json(f) ==
    CASE f.kind = "missing" ->
            Raises(Exc("FileNotFoundError", <<"No such file or directory">>))
      [] f.kind = "unreadable" ->
            Raises(Exc("PermissionError", <<"Permission denied">>))
      [] f.kind = "undecodable" ->
            Raises(Exc("UnicodeDecodeError", <<"invalid start byte">>))
      [] f.kind = "malformed" ->
            Raises(Exc("JSONDecodeError", <<"Expecting value">>))
      [] OTHER -> Ok(f.doc)

\* Logger.isEnabledFor(level) after setup_logger(name, LOG_LEVEL)
LevelNo(level) ==
    CASE level = "DEBUG" -> 10 [] level = "INFO" -> 20 [] level = "WARNING" -> 30
      [] level = "ERROR" -> 40 [] OTHER -> 50

IsEnabledFor(level) == LevelNo(level) >= LevelNo(LOG_LEVEL)

LogRecord(level, msg, arg, exc_info) ==
    [name |-> PROJECT_NAME, level |-> level, msg |-> msg, arg |-> arg,
     exc_info |-> exc_info]

\* logger.<level>(msg): the handler emits the record when the level is enabled
Emit(records, r) == IF IsEnabledFor(r.level) THEN Append(records, r) ELSE records

-----------------------------------------------------------------------------
(* src/agents/ai_agent.py *)

NoAgent == [constructed |-> FALSE, api_key |-> NoneVal]

\* a constructor without the check of line 8
AgentInitUnchecked(api_key, env) ==
    Ok([constructed |-> TRUE, api_key |-> PyOr(api_key, env)])

\* CodeGuardianAgent.__init__(api_key)
AgentInit(api_key, env) ==
    LET key == PyOr(api_key, env)
    IN  IF ~Truthy(key)
        THEN Raises(Exc("ValueError", <<"Missing OpenAI API key.">>))
        ELSE Ok([constructed |-> TRUE, api_key |-> key])

DefaultModel == "gpt-4"
DefaultTemperatureTenths == 5

\* the keyword arguments of client.chat.completions.create in ask
ChatRequest(prompt, model, temperature) ==
    [model |-> model,
     messages |-> <<[role |-> "user", content |-> prompt]>>,
     temperature |-> temperature]

\* message.content of a completion choice: a str, or None
Contents == {JNull} \cup {JStr(s) : s \in TextsOver(ReplyAlphabet, MaxReplyLen)}

\* What client.chat.completions.create can do: raise one of the package's
\* errors, or return a response with a list of choices.
RemoteOutcomes ==
    {Raises(Exc(c, <<c>>)) : c \in OpenAIErrors}
        \cup {Ok(cs) : cs \in UNION {[1..n -> Contents] : n \in 0..MaxChoices}}

\* a try block that reads the last choice instead of the first
AskTryLastChoice(o) ==
    IF ~o.ok THEN o
    ELSE IF Len(o.val) = 0
    THEN Raises(Exc("IndexError", <<"list index out of range">>))
    ELSE IF o.val[Len(o.val)].t # "str"
    THEN Raises(Exc("AttributeError", <<o.val[Len(o.val)].t, "strip">>))
    ELSE Ok(Strip(o.val[Len(o.val)].s))

\* the body of the try block of ask: lines 17-22
AskTry(o) ==
    IF ~o.ok THEN o
    ELSE IF Len(o.val) = 0
    THEN Raises(Exc("IndexError", <<"list index out of range">>))
    ELSE IF o.val[1].t # "str"
    THEN Raises(Exc("AttributeError", <<o.val[1].t, "strip">>))
    ELSE Ok(Strip(o.val[1].s))

\* CodeGuardianAgent.ask: the try block and its except OpenAIError clause
AskResult(o) ==
    LET r == AskTry(o)
    IN  IF ~r.ok /\ Catches("OpenAIError", r.exc.cls)
        THEN Raises(Exc("RuntimeError", <<"OpenAI API error: ">> \o r.exc.msg))
        ELSE r

-----------------------------------------------------------------------------
(* src/main.py *)

Usage == "Usage: python main.py <path_to_input.json>"
Header == "\n=== AI Response ===\n"

\* an extraction that turns whatever it finds into text: str(...).strip()
ExtractQuestionCoerced(d) ==
    IF d.t # "dict"
    THEN Raises(Exc("AttributeError", <<d.t, "get">>))
    ELSE LET v == IF "question" \in DOMAIN d.items
                  THEN d.items["question"] ELSE JStr(<<>>)
         IN  IF v.t # "str" THEN Ok(<<"a">>) ELSE Ok(Strip(v.s))

\* data.get("question", "").strip()
ExtractQuestion(d) ==
    IF d.t # "dict"
    THEN Raises(Exc("AttributeError", <<d.t, "get">>))
    ELSE LET v == IF "question" \in DOMAIN d.items
                  THEN d.items["question"] ELSE JStr(<<>>)
         IN  IF v.t # "str"
             THEN Raises(Exc("AttributeError", <<v.t, "strip">>))
             ELSE Ok(Strip(v.s))

NoData == [t |-> "unbound"]

Init ==
    /\ pc = "main"
    /\ environ \in EnvValues
    /\ OPENAI_API_KEY = SettingsApiKey(environ)
    /\ data = NoData
    /\ question = <<>>
    /\ api_key_arg = <<>>
    /\ agent = NoAgent
    /\ requests = <<>>
    /\ remote = <<>>
    /\ answer = <<>>
    /\ exc = NoExc
    /\ raised_in = NoneVal
    /\ stdout = <<>>
    /\ log = <<>>
    /\ exit_status = <<>>

\* An exception leaves the interpreter: the process exits with its status.
Uncaught(e, where) ==
    /\ exc' = e
    /\ raised_in' = where
    /\ pc' = "exited"
    /\ exit_status' = <<e.code>>

\* An exception is raised inside the try block of run (lines 8-19): the
\* `except Exception` clause takes it, or it leaves run.
RaiseInTry(e, where) ==
    IF Catches("Exception", e.cls)
    THEN /\ exc' = e
         /\ raised_in' = where
         /\ pc' = "except"
         /\ UNCHANGED exit_status
    ELSE Uncaught(e, where)

\* lines 25-29
Main ==
    /\ pc = "main"
    /\ \E argc \in 1..MaxArgc :
         IF argc # 2
         THEN /\ stdout' = Append(stdout, Usage)
              /\ Uncaught(SystemExit(1), "main")
         ELSE /\ pc' = "load"
              /\ UNCHANGED <<stdout, exc, raised_in, exit_status>>
    /\ UNCHANGED <<environ, OPENAI_API_KEY, data, question, api_key_arg, agent,
                   requests, remote, answer, log>>

\* line 9
LoadJson ==
    /\ pc = "load"
    /\ \E f \in Files :
         LET r == load_json(f)
         IN  IF r.ok
             THEN /\ data' = r.val
                  /\ pc' = "extract"
                  /\ UNCHANGED <<exc, raised_in, exit_status>>
             ELSE /\ RaiseInTry(r.exc, "load")
                  /\ UNCHANGED data
    /\ UNCHANGED <<environ, OPENAI_API_KEY, question, api_key_arg, agent,
                   requests, remote, answer, stdout, log>>

\* lines 10-11
Extract ==
    /\ pc = "extract"
    /\ LET r == ExtractQuestion(data)
       IN  IF r.ok
           THEN /\ question' = r.val
                /\ pc' = IF r.val = <<>> THEN "no_question" ELSE "construct"
                /\ UNCHANGED <<exc, raised_in, exit_status>>
           ELSE /\ RaiseInTry(r.exc, "extract")
                /\ UNCHANGED question
    /\ UNCHANGED <<environ, OPENAI_API_KEY, data, api_key_arg, agent,
                   requests, remote, answer, stdout, log>>

\* lines 12-13
NoQuestion ==
    /\ pc = "no_question"
    /\ log' = Emit(log, LogRecord("ERROR", "No question provided in input file.",
                                  <<>>, NoneVal))
    /\ RaiseInTry(SystemExit(1), "validate")
    /\ UNCHANGED <<environ, OPENAI_API_KEY, data, question, api_key_arg, agent,
                   requests, remote, answer, stdout>>

\* line 15
Construct ==
    /\ pc = "construct"
    /\ api_key_arg' = <<OPENAI_API_KEY>>
    /\ LET r == AgentInit(OPENAI_API_KEY, environ)
       IN  IF r.ok
           THEN /\ agent' = r.val
                /\ pc' = "ask"
                /\ UNCHANGED <<exc, raised_in, exit_status>>
           ELSE /\ RaiseInTry(r.exc, "construct")
                /\ UNCHANGED agent
    /\ UNCHANGED <<environ, OPENAI_API_KEY, data, question,
                   requests, remote, answer, stdout, log>>

\* an ask that is tried again when it fails
AskRetry ==
    /\ pc = "ask"
    /\ log' = Emit(log, LogRecord("INFO", "Sending question to AI agent: ",
                                  question, NoneVal))
    /\ requests' = Append(requests,
                          ChatRequest(question, DefaultModel, DefaultTemperatureTenths))
    /\ \E o \in RemoteOutcomes :
         LET r == AskResult(o)
         IN  /\ remote' = Append(remote, o)
             /\ IF r.ok
                THEN /\ answer' = r.val
                     /\ pc' = "print_header"
                     /\ UNCHANGED <<exc, raised_in, exit_status>>
                ELSE IF requests = <<>>
                THEN UNCHANGED <<pc, answer, exc, raised_in, exit_status>>
                ELSE /\ RaiseInTry(r.exc, "ask")
                     /\ UNCHANGED answer
    /\ UNCHANGED <<environ, OPENAI_API_KEY, data, question, api_key_arg, agent,
                   stdout>>

\* an ask that takes the model from the input file when it names one
AskWithOverrides ==
    /\ pc = "ask"
    /\ log' = Emit(log, LogRecord("INFO", "Sending question to AI agent: ",
                                  question, NoneVal))
    /\ requests' = Append(requests,
                          ChatRequest(question,
                                      IF "model" \in DOMAIN data.items
                                      THEN "from-input" ELSE DefaultModel,
                                      DefaultTemperatureTenths))
    /\ \E o \in RemoteOutcomes :
         LET r == AskResult(o)
         IN  /\ remote' = Append(remote, o)
             /\ IF r.ok
                THEN /\ answer' = r.val
                     /\ pc' = "print_header"
                     /\ UNCHANGED <<exc, raised_in, exit_status>>
                ELSE /\ RaiseInTry(r.exc, "ask")
                     /\ UNCHANGED answer
    /\ UNCHANGED <<environ, OPENAI_API_KEY, data, question, api_key_arg, agent,
                   stdout>>

\* lines 16-17
Ask ==
    /\ pc = "ask"
    /\ log' = Emit(log, LogRecord("INFO", "Sending question to AI agent: ",
                                  question, NoneVal))
    /\ requests' = Append(requests,
                          ChatRequest(question, DefaultModel, DefaultTemperatureTenths))
    /\ \E o \in RemoteOutcomes :
         LET r == AskResult(o)
         IN  /\ remote' = Append(remote, o)
             /\ IF r.ok
                THEN /\ answer' = r.val
                     /\ pc' = "print_header"
                     /\ UNCHANGED <<exc, raised_in, exit_status>>
                ELSE /\ RaiseInTry(r.exc, "ask")
                     /\ UNCHANGED answer
    /\ UNCHANGED <<environ, OPENAI_API_KEY, data, question, api_key_arg, agent,
                   stdout>>

\* print(): the write to standard output succeeds or raises OSError
PyPrint(text, next_pc) ==
    \E written \in BOOLEAN :
        IF written
        THEN /\ stdout' = Append(stdout, text)
             /\ pc' = next_pc
             /\ UNCHANGED <<exc, raised_in, exit_status>>
        ELSE /\ RaiseInTry(Exc("OSError", <<"Broken pipe">>), "print")
             /\ UNCHANGED stdout

\* line 18
PrintHeader ==
    /\ pc = "print_header"
    /\ PyPrint(Header, "print_answer")
    /\ UNCHANGED <<environ, OPENAI_API_KEY, data, question, api_key_arg, agent,
                   requests, remote, answer, log>>

\* line 19
PrintAnswer ==
    /\ pc = "print_answer"
    /\ PyPrint(answer, "return")
    /\ UNCHANGED <<environ, OPENAI_API_KEY, data, question, api_key_arg, agent,
                   requests, remote, answer, log>>

\* a handler that logs and falls through: run returns, the status is 0
ExceptFallThrough ==
    /\ pc = "except"
    /\ log' = Emit(log, LogRecord("ERROR", "Execution failed:", <<>>, exc.cls))
    /\ pc' = "exited"
    /\ exit_status' = <<0>>
    /\ UNCHANGED <<environ, OPENAI_API_KEY, data, question, api_key_arg, agent,
                   requests, remote, answer, exc, raised_in, stdout>>

\* lines 21-23
Except ==
    /\ pc = "except"
    /\ log' = Emit(log, LogRecord("ERROR", "Execution failed:", <<>>, exc.cls))
    /\ pc' = "exited"
    /\ exit_status' = <<SystemExit(1).code>>
    /\ UNCHANGED <<environ, OPENAI_API_KEY, data, question, api_key_arg, agent,
                   requests, remote, answer, exc, raised_in, stdout>>

\* run returns normally and the script ends: the interpreter exits with 0
Return ==
    /\ pc = "return"
    /\ pc' = "exited"
    /\ exit_status' = <<0>>
    /\ UNCHANGED <<environ, OPENAI_API_KEY, data, question, api_key_arg, agent,
                   requests, remote, answer, exc, raised_in, stdout, log>>

Next ==
    \/ Main
    \/ LoadJson
    \/ Extract
    \/ NoQuestion
    \/ Construct
    \/ Ask
    \/ PrintHeader
    \/ PrintAnswer
    \/ Except
    \/ Return

Spec == Init /\ [][Next]_vars

-----------------------------------------------------------------------------
(* CodeGuardianAgent constructed by a caller other than run: the api_key   *)
(* argument is whatever that caller passes (the default is None), and the  *)
(* environment is read when the constructor runs.                          *)

ApiKeyArgs == {NoneVal, "", "sk-arg"}

DirectInit ==
    /\ pc = "direct"
    /\ environ \in EnvValues
    /\ OPENAI_API_KEY = SettingsApiKey(environ)
    /\ data = NoData
    /\ question = <<>>
    /\ api_key_arg = <<>>
    /\ agent = NoAgent
    /\ requests = <<>>
    /\ remote = <<>>
    /\ answer = <<>>
    /\ exc = NoExc
    /\ raised_in = NoneVal
    /\ stdout = <<>>
    /\ log = <<>>
    /\ exit_status = <<>>

\* CodeGuardianAgent(api_key=k): ai_agent.py lines 6-10
ConstructDirect ==
    /\ pc = "direct"
    /\ \E k \in ApiKeyArgs :
         LET r == AgentInit(k, environ)
         IN  /\ api_key_arg' = <<k>>
             /\ IF r.ok
                THEN /\ agent' = r.val
                     /\ UNCHANGED <<exc, raised_in>>
                ELSE /\ exc' = r.exc
                     /\ raised_in' = "construct"
                     /\ UNCHANGED agent
    /\ pc' = "direct_done"
    /\ UNCHANGED <<environ, OPENAI_API_KEY, data, question, requests, remote,
                   answer, stdout, log, exit_status>>

AgentSpecInit == Init \/ DirectInit

AgentSpecNext == Next \/ ConstructDirect

AgentSpec == AgentSpecInit /\ [][AgentSpecNext]_vars

-----------------------------------------------------------------------------
(* Vocabulary of the properties *)

\* t is s without its leading and trailing whitespace, said without Strip.
IsTrimOf(t, s) ==
    \E i, j \in 0..Len(s) :
        /\ i + Len(t) + j = Len(s)
        /\ \A k \in 1..Len(t) : t[k] = s[i + k]
        /\ \A k \in 1..i : s[k] \in Whitespace
        /\ \A k \in (Len(s) - j + 1)..Len(s) : s[k] \in Whitespace
        /\ Len(t) > 0 => (t[1] \notin Whitespace /\ t[Len(t)] \notin Whitespace)

AllWhitespace(s) == \A k \in 1..Len(s) : s[k] \in Whitespace

Loaded == data # NoData
IsObject == Loaded /\ data.t = "dict"
HasQuestion == IsObject /\ "question" \in DOMAIN data.items
HasTextQuestion == HasQuestion /\ data.items["question"].t = "str"

\* the input object's question is missing, empty or whitespace-only
BlankQuestion ==
    /\ IsObject
    /\ \/ ~HasQuestion
       \/ HasTextQuestion /\ AllWhitespace(data.items["question"].s)

\* the input object holds a question with something other than whitespace
ValidQuestion == HasTextQuestion /\ ~AllWhitespace(data.items["question"].s)

Exited == pc = "exited"
HasErrorRecord == \E i \in 1..Len(log) : log[i].level = "ERROR"
HeaderPrinted == \E i \in 1..Len(stdout) : stdout[i] = Header

-----------------------------------------------------------------------------
(* C1 *)

\* C1: when the parsed input object has no question, an empty one or a
\* whitespace-only one, the run never reaches the construction of the agent
\* client, makes no remote call, and the only status it exits with is 1.
C1_BlankQuestionExits1 ==
    BlankQuestion =>
        /\ pc \in {"extract", "no_question", "exited"}
        /\ api_key_arg = <<>>
        /\ agent = NoAgent
        /\ requests = <<>>
        /\ Exited => exit_status = <<1>>

C1_Witness ==
    /\ Exited
    /\ HasTextQuestion
    /\ data.items["question"].s = <<" ", " ">>
    /\ exit_status = <<1>>
    /\ requests = <<>>

-----------------------------------------------------------------------------
(* C2 *)

CredentialAvailable == Truthy(environ)

\* the one request made carries one message whose content is the trimmed
\* text of the input's question
OneCallWithTrimmedQuestion ==
    /\ Len(requests) = 1
    /\ Len(requests[1].messages) = 1
    /\ IsTrimOf(requests[1].messages[1].content, data.items["question"].s)

\* C2 as stated: every run on an input with a non-blank question has, when it
\* exits, invoked the remote exchange exactly once with the trimmed question.
C2_Original ==
    (Exited /\ ValidQuestion) => OneCallWithTrimmedQuestion

\* C2, amended: a run on an input with a non-blank question never makes more
\* than one remote call; if a credential is available in the environment it
\* has, when it exits, made exactly one, with the trimmed question as the
\* content of its single message; if none is available it has made none.
C2_OnceWithTrimmedQuestion ==
    ValidQuestion =>
        /\ Len(requests) <= 1
        /\ (Exited /\ CredentialAvailable) => OneCallWithTrimmedQuestion
        /\ ~CredentialAvailable => requests = <<>>
        /\ requests # <<>> => OneCallWithTrimmedQuestion

C2_Witness ==
    /\ Exited
    /\ ValidQuestion
    /\ data.items["question"].s = <<" ", "a", " ">>
    /\ Len(requests) = 1
    /\ requests[1].messages[1].content = <<"a">>

-----------------------------------------------------------------------------
(* C3 *)

\* C3: whatever goes wrong in ask (the package raises, the response has no
\* choice, the first choice has no text), the exception that leaves ask is
\* the RuntimeError "OpenAI API error: ..." carrying the cause's description.
C3_OnlyRuntimeErrorEscapesAsk ==
    raised_in = "ask" =>
        /\ exc.cls = "RuntimeError"
        /\ Len(exc.msg) >= 2
        /\ exc.msg[1] = "OpenAI API error: "

-----------------------------------------------------------------------------
(* C5 *)

FailedInRun == raised_in \in {"load", "extract", "validate", "construct", "ask"}

\* C5: once a loading, validation, construction or remote failure (or a
\* failure to print) happened in run, the run is in its failure path or has
\* exited; it never exits with a status other than 1, and when it has exited
\* an ERROR record was logged.
C5_FailuresExit1Logged ==
    (FailedInRun \/ raised_in = "print") =>
        /\ pc \in {"except", "exited"}
        /\ Exited => (exit_status = <<1>> /\ HasErrorRecord)

C5_Witness ==
    /\ Exited
    /\ exc.cls = "JSONDecodeError"
    /\ exit_status = <<1>>
    /\ HasErrorRecord

-----------------------------------------------------------------------------
(* C6 *)

\* the remote exchange returned a response whose first choice has text
ResponseReceived ==
    /\ Len(remote) = 1
    /\ remote[1].ok
    /\ Len(remote[1].val) >= 1
    /\ remote[1].val[1].t = "str"

\* C6: a run that exited with status 0 printed exactly the header and then
\* the trimmed text of the first completion choice; the header is printed
\* only after a response was received; a run that failed in loading,
\* validation, construction or the remote exchange printed no header.
C6_Status0AfterHeaderAndAnswer ==
    /\ exit_status = <<0>> =>
          /\ ResponseReceived
          /\ Len(stdout) = 2
          /\ stdout[1] = Header
          /\ IsTrimOf(stdout[2], remote[1].val[1].s)
    /\ HeaderPrinted => (ResponseReceived /\ ~FailedInRun)
    /\ FailedInRun => stdout = <<>>

C6_Witness ==
    /\ exit_status = <<0>>
    /\ Len(remote) = 1
    /\ remote[1].ok
    /\ Len(remote[1].val) = 2
    /\ remote[1].val[1] = JStr(<<" ", "a">>)
    /\ remote[1].val[2] = JStr(<<>>)
    /\ stdout = <<Header, <<"a">>>>

-----------------------------------------------------------------------------
(* C8 *)

\* C8: at most one remote call is ever made; once the remote exchange failed
\* the run only handles the failure and exits with status 1.
C8_AtMostOneCallNoRetry ==
    /\ Len(requests) <= 1
    /\ Len(remote) = Len(requests)
    /\ raised_in = "ask" =>
          /\ Len(requests) = 1
          /\ pc \in {"except", "exited"}
          /\ Exited => exit_status = <<1>>

C8_Witness ==
    /\ Exited
    /\ raised_in = "ask"
    /\ exc.cls = "RuntimeError"
    /\ Len(requests) = 1
    /\ exit_status = <<1>>

-----------------------------------------------------------------------------
(* C10 *)

\* the document is valid JSON but no mapping with a string question
NotAMappingWithTextQuestion ==
    /\ Loaded
    /\ \/ ~IsObject
       \/ HasQuestion /\ ~HasTextQuestion

\* C10: when the document is valid JSON but its root is no object, or its
\* question is no string, the run fails in the extraction with an
\* AttributeError taken by the generic handler: the agent client is never
\* constructed, no remote call is made and the only exit status is 1.
C10_NonTextQuestionHalts ==
    NotAMappingWithTextQuestion =>
        /\ pc \in {"extract", "except", "exited"}
        /\ pc # "extract" => (raised_in = "extract" /\ exc.cls = "AttributeError")
        /\ api_key_arg = <<>>
        /\ agent = NoAgent
        /\ requests = <<>>
        /\ Exited =>
              /\ exit_status = <<1>>
              /\ log = <<LogRecord("ERROR", "Execution failed:", <<>>, "AttributeError")>>

C10_Witness ==
    /\ Exited
    /\ HasQuestion
    /\ data.items["question"] = JNull
    /\ exit_status = <<1>>
    /\ requests = <<>>

-----------------------------------------------------------------------------
(* C9 *)

\* two input objects with the same question (both without one, or both with
\* the same value)
SameQuestion(d1, d2) ==
    /\ ("question" \in DOMAIN d1.items) <=> ("question" \in DOMAIN d2.items)
    /\ "question" \in DOMAIN d1.items =>
          d1.items["question"] = d2.items["question"]

\* C9: the run reads nothing of the input but its question: every input
\* object with the same question and any other keys yields the same
\* extraction (the same text, or the same failure) at line 10, the only place
\* that reads the input, and the request sent is
\* the single user message holding the trimmed question, with the model
\* "gpt-4" and the temperature 0.5, whatever the other keys are.
C9_OtherKeysIgnored ==
    /\ (IsObject /\ pc = "extract") =>
          \A d \in InputObjects :
              SameQuestion(d, data) => ExtractQuestion(d) = ExtractQuestion(data)
    /\ \A i \in 1..Len(requests) :
          /\ requests[i] =
                [model |-> "gpt-4",
                 messages |-> <<[role |-> "user", content |-> question]>>,
                 temperature |-> 5]
          /\ HasTextQuestion
          /\ IsTrimOf(question, data.items["question"].s)

C9_Witness ==
    /\ Exited
    /\ ValidQuestion
    /\ DOMAIN data.items = {"question", "model", "temperature"}
    /\ Len(requests) = 1
    /\ requests[1].model = "gpt-4"
    /\ requests[1].temperature = 5

-----------------------------------------------------------------------------
(* C4 *)

\* C4: when CodeGuardianAgent is constructed with an api_key that is None or
\* empty and the environment holds no credential either, the construction
\* raises ValueError("Missing OpenAI API key."), no agent exists, no remote
\* call is made and run can only exit with status 1; when the api_key is None
\* or empty and the environment holds a credential, the construction
\* succeeds with the environment's value.
C4_MissingCredential ==
    \A i \in 1..Len(api_key_arg) :
        /\ (~Truthy(api_key_arg[i]) /\ ~Truthy(environ)) =>
              /\ agent = NoAgent
              /\ raised_in = "construct"
              /\ exc = Exc("ValueError", <<"Missing OpenAI API key.">>)
              /\ requests = <<>>
              /\ remote = <<>>
              /\ pc \in {"except", "exited", "direct_done"}
              /\ Exited => exit_status = <<1>>
        /\ (~Truthy(api_key_arg[i]) /\ Truthy(environ)) =>
              /\ agent = [constructed |-> TRUE, api_key |-> environ]
              /\ raised_in # "construct"

C4_Witness ==
    /\ Exited
    /\ api_key_arg = <<"">>
    /\ environ = NoneVal
    /\ raised_in = "construct"
    /\ exit_status = <<1>>
    /\ requests = <<>>

\* the second case of C4: the argument is absent, the environment holds the
\* credential, and the agent is constructed with it
C4_EnvironmentFallbackReached ==
    /\ api_key_arg = <<NoneVal>>
    /\ environ = "sk-env"
    /\ agent = [constructed |-> TRUE, api_key |-> "sk-env"]

-----------------------------------------------------------------------------
(* C7 *)

\* the orchestrator's state, as the specification names it
State ==
    CASE pc = "main" -> "INVOKED"
      [] pc = "load" -> "START"
      [] pc = "extract" -> "INPUT_LOADED"
      [] pc \in {"construct", "ask"} -> "QUESTION_VALIDATED"
      [] pc \in {"print_header", "print_answer"} -> "RESPONSE_RECEIVED"
      [] pc = "return" -> "PRINTED"
      [] pc \in {"no_question", "except"} -> "ERROR"
      [] pc = "exited" /\ exit_status = <<0>> -> "DONE"
      [] pc = "exited" /\ exit_status = <<1>> -> "EXIT(1)"
      [] OTHER -> "OTHER"

Linear ==
    <<"START", "INPUT_LOADED", "QUESTION_VALIDATED", "RESPONSE_RECEIVED",
      "PRINTED", "DONE">>

LinearStates == {Linear[i] : i \in 1..Len(Linear)}

\* a step of the state machine: to the next state of the line, to ERROR, or
\* from ERROR to EXIT(1) (and, before run is entered, the usage error)
OrderedStep(s, t) ==
    \/ s = t
    \/ \E i \in 1..(Len(Linear) - 1) : s = Linear[i] /\ t = Linear[i + 1]
    \/ s \in LinearStates /\ t = "ERROR"
    \/ s = "ERROR" /\ t = "EXIT(1)"
    \/ s = "INVOKED" /\ t \in {"START", "EXIT(1)"}

ErrorStep == Next /\ State' = "ERROR"

\* ERROR can be reached from the current state: by the next step, or by a
\* step after at most two steps of the line.
ErrorNext == ENABLED ErrorStep
ErrorInTwo == ErrorNext \/ ENABLED (Next /\ ErrorNext')
ErrorReachable == ErrorInTwo \/ ENABLED (Next /\ ErrorInTwo')

Terminated == State \in {"DONE", "EXIT(1)"}

\* the position of the run in main.py, counted along the code: every step
\* moves it forward, so no run goes on for ever
Position ==
    CASE pc = "main" -> 0
      [] pc = "load" -> 1
      [] pc = "extract" -> 2
      [] pc = "no_question" -> 3
      [] pc = "construct" -> 3
      [] pc = "ask" -> 4
      [] pc = "print_header" -> 5
      [] pc = "print_answer" -> 6
      [] pc = "return" -> 7
      [] pc = "except" -> 8
      [] OTHER -> 9

\* a step follows the order of the line and moves the run forward
LinearStep == OrderedStep(State, State') /\ Position' > Position

\* C7 as stated: the states are visited in the order of the line, ERROR (and
\* then EXIT(1)) is reachable from every state of the line, and a run stops
\* only in DONE or EXIT(1).
C7_Original ==
    /\ [][LinearStep]_vars
    /\ [](State \in LinearStates => ErrorReachable)
    /\ [](State = "ERROR" => ENABLED (Next /\ State' = "EXIT(1)"))
    /\ [](Terminated \/ ENABLED Next)

\* C7, amended: the states are visited in the order of the line, none
\* skipped or revisited; ERROR (and then EXIT(1)) is reachable from every
\* state in START, INPUT_LOADED, QUESTION_VALIDATED and RESPONSE_RECEIVED,
\* and from no state in PRINTED or DONE, where nothing is left that can
\* fail; every step moves the run forward and a run stops only in DONE
\* (status 0) or EXIT(1).
C7_LinearOrder ==
    /\ [][LinearStep]_vars
    /\ [](State \in {"START", "INPUT_LOADED", "QUESTION_VALIDATED",
                     "RESPONSE_RECEIVED"} => ErrorReachable)
    /\ [](State \in {"PRINTED", "DONE"} => ~ErrorReachable)
    /\ [](State = "ERROR" => ENABLED (Next /\ State' = "EXIT(1)"))
    /\ [](Terminated \/ ENABLED Next)

C7_Witness ==
    /\ State = "DONE"
    /\ stdout # <<>>
    /\ agent.constructed
    /\ Loaded

====
